---- MODULE Spec2Model ----
(***************************************************************************)
(* Model of replay/stats.go: the StatsCollector state machine (StartOp,    *)
(* EndOp, SampleLatencies), the latency channel it sends on, the reader of *)
(* that channel, and CombineStats.                                         *)
(*                                                                         *)
(* Each collector is driven by one caller.  A call that cannot block is    *)
(* one step; EndOp is two steps when it has to send on the latency         *)
(* channel: EndOp (lines 80-87, up to the send) and EndOpSend (the send of *)
(* line 88 completing, then lines 90-91).                                  *)
(*                                                                         *)
(* Sample rates are in percent (100 is the float 1.0), time is a counter   *)
(* of clock ticks, a pointer is <<>> (nil) or <<v>>.                       *)
(*                                                                         *)
(* Specifications: Spec (one worker, its channels and their reader),       *)
(* SpecCombine (two workers and CombineStats), SpecFair (one worker and a  *)
(* reader that keeps draining), SpecNull (the null collector next to a     *)
(* worker) and SpecRace (two threads on one collector, one field access a  *)
(* step).                                                                  *)
(***************************************************************************)
EXTENDS Integers, Sequences, FiniteSets, TLC

\* ---- bounds of the model ----
MaxCalls == 5         \* StartOp/EndOp/SampleLatencies calls in a run of Spec
MaxCombineCalls == 3  \* the same, in a run of SpecCombine
MaxClock == 2         \* largest reading of the clock
BufCap == 2           \* capacity of the buffered latency channel
MaxRaceCalls == 4     \* calls of the two threads in a run of SpecRace

\* ---- the environment ----
Collectors == {"w1", "w2"}
Workers == {"w1"}
AllOpTypes == <<"insert", "query">>
OpTypes == {"insert", "query", "other"}
Rates == {0, 50, 100}
RandDraws == {0, 50}
Chans == {"unbuf", "buf"}
NilChan == "nil"
Cap == [c \in Chans |-> IF c = "unbuf" THEN 0 ELSE BufCap]
\* the argument lists of CombineStats: none, one, two, and three with one
\* collector twice
StatsLists == {<<>>, <<"w1">>, <<"w1", "w2">>, <<"w2", "w1", "w2">>}

Nil == <<>>
Ref(v) == <<v>>
Deref(p) == p[1]

\* a Go map with a zero default: reading a missing key gives 0, writing
\* creates the key
Get(m, k) == IF k \in DOMAIN m THEN m[k] ELSE 0
Put(m, k, v) == [x \in DOMAIN m \cup {k} |-> IF x = k THEN v ELSE m[x]]

Elems(seq) == {seq[i] : i \in 1..Len(seq)}

\* the threads that call StartOp and EndOp on one shared collector; a thread
\* is at a position in the call it is making and has the call's locals: the
\* type it was given, the value it read for a ++ or +=, the duration it
\* computed, and which writes it read the pending start from (readEpoch,
\* readLastOp)
Threads == {"t1", "t2"}
NoWriter == [by |-> "none", n |-> 0, op |-> "none"]
IdleThread ==
  [pc |-> "idle", calls |-> 0, opType |-> Nil, tmp |-> 0, duration |-> 0,
   readEpoch |-> NoWriter, readLastOp |-> NoWriter]

VARIABLES stats, pc, sending, chanBuf, received, now, newStats,
          hist, effLog, nStart, startChan, lastStart, ncalls,
          nullRet, nullSinks, shared, thr, writer

\* the collectors of the workers, their channels and the clock
collectorVars == <<stats, pc, sending, chanBuf, received, newStats,
                   hist, effLog, nStart, startChan, lastStart, ncalls>>
workerVars == <<collectorVars, now>>
\* the null collector: what its last call returned, the channels it was given
nullVars == <<nullRet, nullSinks>>
\* one collector shared by two threads
raceVars == <<shared, thr, writer>>

vars == <<workerVars, nullVars, raceVars>>

\* ---- the collector ----
NewStatsCollector ==
  [counts |-> [t \in Elems(AllOpTypes) |-> 0],
   durations |-> [t \in Elems(AllOpTypes) |-> 0],
   total |-> 0,
   sampleRate |-> 100,
   epoch |-> Nil,
   lastOp |-> Nil,
   latencyChan |-> NilChan]

Count(st, opType) == Get(st.counts, opType)
TotalTime(st, opType) == Get(st.durations, opType)

\* IncCounts that counts only the types NewStatsCollector gave an entry
IncCountsKnownOnly(st, opType) ==
  [st EXCEPT !.total = @ + 1,
             !.counts = IF opType \in DOMAIN @
                        THEN Put(@, opType, Get(@, opType) + 1) ELSE @]

\* IncCounts that forgets the count of the type
IncTotalOnly(st, opType) == [st EXCEPT !.total = @ + 1]

\* IncCounts that adds 1 to the count of the type but 2 to total
IncCountsTotalTwice(st, opType) ==
  [st EXCEPT !.total = @ + 2,
             !.counts = Put(@, opType, Get(@, opType) + 1)]

\* lines 63-65
IncCounts(st, opType) ==
  [st EXCEPT !.total = @ + 1,
             !.counts = Put(@, opType, Get(@, opType) + 1)]

\* lines 67-71: is this StartOp timed, r being the draw of rand.Float64()
Sampled(rate, r) ==
  IF rate = 0 THEN FALSE ELSE (rate = 100 \/ r < rate)

\* BeginTiming that keeps a pending start instead of overwriting it
BeginTimingKeepFirst(st, opType, t) ==
  IF st.epoch # Nil THEN st
  ELSE [st EXCEPT !.epoch = Ref(t), !.lastOp = Ref(opType)]

\* lines 72-74
BeginTiming(st, opType, t) ==
  [st EXCEPT !.epoch = Ref(t), !.lastOp = Ref(opType)]

\* Elapsed measured from the clock's origin instead of the pending start
ElapsedSinceZero(epoch, t) == t

\* line 84
Elapsed(epoch, t) == t - Deref(epoch)

\* AddDuration with the commented-out line 86 restored
AddDurationAndCount(st, duration) ==
  [st EXCEPT !.durations =
     Put(@, Deref(st.lastOp), Get(@, Deref(st.lastOp)) + duration),
             !.counts =
     Put(@, Deref(st.lastOp), Get(@, Deref(st.lastOp)) + 1)]

\* line 85
AddDuration(st, duration) ==
  [st EXCEPT !.durations =
     Put(@, Deref(st.lastOp), Get(@, Deref(st.lastOp)) + duration)]

\* lines 87-88: the channel EndOp sends on, NilChan for none
SinkOf(st) == st.latencyChan

\* ChanSend that gives up when the buffer is full (select with a default)
ChanSendOrDrop(buf, cap, msg) ==
  IF Len(buf) < cap THEN [done |-> TRUE, buf |-> Append(buf, msg)]
                    ELSE [done |-> TRUE, buf |-> buf]

\* ChanSend on a channel that always has room
ChanSendUnbounded(buf, cap, msg) == [done |-> TRUE, buf |-> Append(buf, msg)]

\* ChanSend on a buffer that hands out the newest sample first
ChanSendFront(buf, cap, msg) ==
  IF Len(buf) < cap THEN [done |-> TRUE, buf |-> <<msg>> \o buf]
                    ELSE [done |-> FALSE, buf |-> buf]

\* line 88: the send on a channel whose buffer is buf and whose capacity is
\* cap, no reader waiting: it completes if the buffer has room, and blocks
\* otherwise
ChanSend(buf, cap, msg) ==
  IF Len(buf) < cap THEN [done |-> TRUE, buf |-> Append(buf, msg)]
                    ELSE [done |-> FALSE, buf |-> buf]

\* ClearPending that also forgets the sink
ClearPendingAndSink(st) ==
  [st EXCEPT !.epoch = Nil, !.lastOp = Nil, !.latencyChan = NilChan]

\* ClearPending without line 91
ClearPendingEpochOnly(st) == [st EXCEPT !.epoch = Nil]

\* lines 90-91
ClearPending(st) == [st EXCEPT !.epoch = Nil, !.lastOp = Nil]

\* SetSampling that also drops the pending start
SetSamplingResetsPending(st, sampleRate, latencyChannel) ==
  [st EXCEPT !.sampleRate = sampleRate, !.latencyChan = latencyChannel,
             !.epoch = Nil, !.lastOp = Nil]

\* lines 122-123
SetSampling(st, sampleRate, latencyChannel) ==
  [st EXCEPT !.sampleRate = sampleRate, !.latencyChan = latencyChannel]

\* ---- the derived metrics ----
\* a float64 is kept as the quotient num/den it was computed as; a quotient
\* with den = 0 is a division by zero; Second is time.Second in clock
\* ticks, a tick being 100 ms
Second == 10
Zero == [num |-> 0, den |-> 1]
Quot(a, b) == [num |-> a, den |-> b]

\* OpsSec that guards on the count instead of the accumulated time
OpsSecCountGuard(st, opType) ==
  LET nano == TotalTime(st, opType)
  IN IF Get(st.counts, opType) = 0 THEN Zero
     ELSE Quot(Get(st.counts, opType) * Second, nano)

\* lines 102-111: count * time.Second / nano, both times in clock ticks
OpsSec(st, opType) ==
  LET nano == TotalTime(st, opType)
  IN IF nano = 0 THEN Zero
     ELSE Quot(Get(st.counts, opType) * Second, nano)

\* lines 113-120: sec / count * 1000, sec being the ticks / Second
LatencyInMs(st, opType) ==
  LET count == Get(st.counts, opType)
  IN IF count = 0 THEN Zero
     ELSE Quot(TotalTime(st, opType) * 1000, Second * count)

\* ---- history kept for the properties ----
\* hist[s]: the last two calls made on s, most recent first; of the older
\* one only its kind and whether it was timed
Brief(e) == [op |-> e.op, sampled |-> (e.op = "StartOp" /\ e.sampled)]
Remember(h, e) == IF h = <<>> THEN <<e>> ELSE <<e, Brief(h[1])>>

RECURSIVE SumOver(_, _)
SumOver(n, S) ==
  IF S = {} THEN 0
  ELSE LET x == CHOOSE x \in S : TRUE IN n[x] + SumOver(n, S \ {x})

Init ==
  /\ stats = [s \in Collectors |-> NewStatsCollector]
  /\ pc = [s \in Collectors |-> "idle"]
  /\ sending = [s \in Collectors |-> Nil]
  /\ chanBuf = [c \in Chans |-> <<>>]
  /\ received = [c \in Chans |-> <<>>]
  /\ now = 0
  /\ newStats = Nil
  /\ hist = [s \in Collectors |-> <<>>]
  /\ effLog = [s \in Collectors |-> <<>>]
  /\ nStart = [s \in Collectors |-> [t \in OpTypes |-> 0]]
  /\ startChan = [s \in Collectors |-> NilChan]
  /\ lastStart = [s \in Collectors |-> "none"]
  /\ ncalls = [s \in Collectors |-> 0]
  /\ nullRet = Nil
  /\ nullSinks = {}
  /\ shared = NewStatsCollector
  /\ thr = [t \in Threads |-> IdleThread]
  /\ writer = [epoch |-> NoWriter, lastOp |-> NoWriter]

StartOp(s, opType) ==
  /\ pc[s] = "idle"
  /\ \E sampled \in {Sampled(stats[s].sampleRate, r) : r \in RandDraws} :
     \E t \in IF sampled THEN now..MaxClock ELSE {now} :
       LET st == stats[s]
           counted == IncCounts(st, opType)
       IN /\ now' = t
          /\ stats' = [stats EXCEPT ![s] =
                         IF sampled THEN BeginTiming(counted, opType, t)
                                    ELSE counted]
          /\ hist' = [hist EXCEPT ![s] =
                        Remember(@, [op |-> "StartOp", opType |-> opType,
                                     sampled |-> sampled,
                                     at |-> t])]
          /\ startChan' = [startChan EXCEPT ![s] =
                             IF sampled THEN st.latencyChan ELSE @]
          /\ lastStart' = [lastStart EXCEPT ![s] =
                             IF sampled THEN "sampled" ELSE "unsampled"]
  /\ nStart' = [nStart EXCEPT ![s][opType] = @ + 1]
  /\ ncalls' = [ncalls EXCEPT ![s] = @ + 1]
  /\ newStats' = Nil
  /\ nullRet' = Nil
  /\ UNCHANGED <<nullSinks, raceVars>>
  /\ UNCHANGED <<pc, sending, chanBuf, received, effLog>>

\* EndOp up to its send (lines 80-87); without a channel, the whole call
EndOp(s) ==
  /\ pc[s] = "idle"
  /\ LET st == stats[s] IN
       IF st.epoch = Nil
       THEN UNCHANGED <<stats, pc, sending, now, effLog>>
       ELSE \E t \in now..MaxClock :
              LET duration == Elapsed(st.epoch, t)
                  added == AddDuration(st, duration)
                  msg == [from |-> s, OpType |-> Deref(st.lastOp),
                          Latency |-> duration]
              IN /\ now' = t
                 /\ IF SinkOf(st) # NilChan
                    THEN /\ stats' = [stats EXCEPT ![s] = added]
                         /\ pc' = [pc EXCEPT ![s] = "send"]
                         /\ sending' = [sending EXCEPT ![s] =
                                          Ref([ch |-> SinkOf(st), msg |-> msg])]
                         /\ effLog' = [effLog EXCEPT ![s] =
                                         Append(@, [ch |-> SinkOf(st),
                                                    msg |-> msg])]
                    ELSE /\ stats' = [stats EXCEPT ![s] = ClearPending(added)]
                         /\ UNCHANGED <<pc, sending, effLog>>
  /\ hist' = [hist EXCEPT ![s] = Remember(@, [op |-> "EndOp"])]
  /\ ncalls' = [ncalls EXCEPT ![s] = @ + 1]
  /\ newStats' = Nil
  /\ nullRet' = Nil
  /\ UNCHANGED <<nullSinks, raceVars>>
  /\ UNCHANGED <<chanBuf, received, nStart, startChan, lastStart>>

\* the send of line 88 completes, then lines 90-91
EndOpSend(s) ==
  /\ pc[s] = "send"
  /\ LET c == Deref(sending[s]).ch
         msg == Deref(sending[s]).msg
         sent == ChanSend(chanBuf[c], Cap[c], msg)
     IN \/ /\ sent.done
           /\ chanBuf' = [chanBuf EXCEPT ![c] = sent.buf]
           /\ UNCHANGED received
        \/ /\ chanBuf[c] = <<>>     \* a waiting reader takes it directly
           /\ received' = [received EXCEPT ![c] = Append(@, msg)]
           /\ UNCHANGED chanBuf
  /\ stats' = [stats EXCEPT ![s] = ClearPending(@)]
  /\ pc' = [pc EXCEPT ![s] = "idle"]
  /\ sending' = [sending EXCEPT ![s] = Nil]
  /\ newStats' = Nil
  /\ nullRet' = Nil
  /\ UNCHANGED <<nullSinks, raceVars>>
  /\ UNCHANGED <<now, hist, effLog, nStart, startChan, lastStart, ncalls>>

\* the reader of a latency channel takes the oldest buffered sample
Recv(c) ==
  /\ chanBuf[c] # <<>>
  /\ received' = [received EXCEPT ![c] = Append(@, Head(chanBuf[c]))]
  /\ chanBuf' = [chanBuf EXCEPT ![c] = Tail(@)]
  /\ newStats' = Nil
  /\ nullRet' = Nil
  /\ UNCHANGED <<nullSinks, raceVars>>
  /\ UNCHANGED <<stats, pc, sending, now, hist, effLog, nStart, startChan,
                 lastStart, ncalls>>

SampleLatencies(s, sampleRate, latencyChannel) ==
  /\ pc[s] = "idle"
  /\ stats' = [stats EXCEPT ![s] = SetSampling(@, sampleRate, latencyChannel)]
  /\ hist' = [hist EXCEPT ![s] = Remember(@, [op |-> "SampleLatencies"])]
  /\ ncalls' = [ncalls EXCEPT ![s] = @ + 1]
  /\ newStats' = Nil
  /\ nullRet' = Nil
  /\ UNCHANGED <<nullSinks, raceVars>>
  /\ UNCHANGED <<pc, sending, chanBuf, received, now, effLog, nStart,
                 startChan, lastStart>>

\* ---- CombineStats ----
\* CombineOne that assigns where the code adds
CombineOneAssign(acc, opType, st) ==
  [acc EXCEPT
     !.counts = Put(@, opType, Get(st.counts, opType)),
     !.durations = Put(@, opType, Get(st.durations, opType)),
     !.total = @ + st.total]

\* lines 132-134: the body of the loops, for one opType and one collector
CombineOne(acc, opType, st) ==
  [acc EXCEPT
     !.counts = Put(@, opType, Get(@, opType) + Get(st.counts, opType)),
     !.durations = Put(@, opType, Get(@, opType) + Get(st.durations, opType)),
     !.total = @ + st.total]

\* lines 131-135: the inner loop, over the collectors
RECURSIVE CombineInner(_, _, _)
CombineInner(acc, opType, statsList) ==
  IF statsList = <<>> THEN acc
  ELSE CombineInner(CombineOne(acc, opType, Head(statsList)), opType,
                    Tail(statsList))

\* lines 130-136: the outer loop, over AllOpTypes
RECURSIVE CombineOuter(_, _, _)
CombineOuter(acc, opTypes, statsList) ==
  IF opTypes = <<>> THEN acc
  ELSE CombineOuter(CombineInner(acc, Head(opTypes), statsList),
                    Tail(opTypes), statsList)

\* CombineStats that starts from a copy of its first argument
CombineStatsFromFirst(statsList) ==
  IF statsList = <<>> THEN NewStatsCollector
  ELSE CombineOuter(Head(statsList), AllOpTypes, Tail(statsList))

CombineStats(statsList) ==
  CombineOuter(NewStatsCollector, AllOpTypes, statsList)

\* a call of CombineStats on the collectors named by list; newStats holds
\* what it returned until the next step of the program
CombineStatsCall(list) ==
  /\ newStats' = Ref([args |-> list,
                      result |-> CombineStats([i \in 1..Len(list) |->
                                                 stats[list[i]]])])
  /\ nullRet' = Nil
  /\ UNCHANGED <<stats, pc, sending, chanBuf, received, now, hist, effLog,
                 nStart, startChan, lastStart, ncalls, nullSinks, raceVars>>

\* ---- one worker, its latency channels and their reader ----
\* fewer than n calls have been made
CallsBelow(n) == SumOver(ncalls, Collectors) < n

Next ==
  \/ CallsBelow(MaxCalls) /\ \E s \in Workers, opType \in OpTypes :
                                StartOp(s, opType)
  \/ CallsBelow(MaxCalls) /\ \E s \in Workers : EndOp(s)
  \/ \E s \in Workers : EndOpSend(s)
  \/ \E c \in Chans : Recv(c)
  \/ CallsBelow(MaxCalls) /\ \E s \in Workers, r \in Rates,
                                 c \in Chans \cup {NilChan} :
                                SampleLatencies(s, r, c)

Spec == Init /\ [][Next]_vars

\* ---- two workers, and CombineStats over them ----
\* the sampling configurations the workers are given in these runs, and the
\* types they start: one of AllOpTypes and one outside it
CombineConfigs == {<<0, "buf">>, <<50, NilChan>>}
CombineOpTypes == {"insert", "other"}

InBudget == CallsBelow(MaxCombineCalls)

NextCombine ==
  \/ InBudget /\ \E s \in Collectors, opType \in CombineOpTypes :
                   StartOp(s, opType)
  \/ InBudget /\ \E s \in Collectors : EndOp(s)
  \/ \E s \in Collectors : EndOpSend(s)
  \/ \E c \in Chans : Recv(c)
  \/ InBudget /\ \E s \in Collectors, cfg \in CombineConfigs :
                   SampleLatencies(s, cfg[1], cfg[2])
  \/ \E list \in StatsLists : CombineStatsCall(list)

SpecCombine == Init /\ [][NextCombine]_vars

\* ---- one worker and a reader that keeps draining the channels ----
\* the worker starts inserts, at rate 1.0, with no sink, the unbuffered or
\* the buffered channel, for as many calls as it takes to fill the buffer
\* and send once more
FairOpTypes == {"insert"}
FairConfigs == {<<100, "unbuf">>, <<100, "buf">>}
FairLists == {<<"w1">>}
FairBudget == CallsBelow(2 * BufCap + 3)

NextFair ==
  \/ FairBudget /\ \E s \in Workers, opType \in FairOpTypes :
                     StartOp(s, opType)
  \/ FairBudget /\ \E s \in Workers : EndOp(s)
  \/ \E s \in Workers : EndOpSend(s)
  \/ \E c \in Chans : Recv(c)
  \/ FairBudget /\ \E s \in Workers, cfg \in FairConfigs :
                     SampleLatencies(s, cfg[1], cfg[2])
  \/ \E list \in FairLists : CombineStatsCall(list)

\* the reader takes a buffered sample if there is one, and a send that can
\* complete (there is room, or the reader is there to take the sample) does
Fairness ==
  /\ \A c \in Chans : WF_vars(Recv(c))
  /\ \A s \in Workers : WF_vars(EndOpSend(s))

SpecFair == Init /\ [][NextFair]_vars /\ Fairness

\* ---- the null collector (lines 140-153) ----
\* a null Count that answers for a worker's collector
NullCountOfWorker(opType) ==
  Count(stats[CHOOSE s \in Workers : TRUE], opType)

\* lines 146-149
NullCount(opType) == 0
NullTotalTime(opType) == 0
NullOpsSec(opType) == Zero
NullLatencyInMs(opType) == Zero

\* a call on the null collector, one step: it returns ret (Nil from a method
\* without a result) and has been given the channels in given
NullCall(op, ret, given) ==
  /\ nullRet' = Ref([op |-> op, ret |-> ret])
  /\ nullSinks' = nullSinks \cup given
  /\ UNCHANGED <<workerVars, raceVars>>

\* lines 143-145
NullStartOp(opType) == NullCall("StartOp", Nil, {})
NullEndOp == NullCall("EndOp", Nil, {})
NullSampleLatencies(sampleRate, latencyChannel) ==
  NullCall("SampleLatencies", Nil, {latencyChannel} \ {NilChan})

NullQuery(opType) ==
  \/ NullCall("Count", NullCount(opType), {})
  \/ NullCall("TotalTime", NullTotalTime(opType), {})
  \/ NullCall("OpsSec", NullOpsSec(opType), {})
  \/ NullCall("LatencyInMs", NullLatencyInMs(opType), {})

\* the null collector, called without bound, next to a worker whose
\* collector is given the same channels
NextNull ==
  \/ \E opType \in OpTypes : NullStartOp(opType)
  \/ NullEndOp
  \/ \E r \in Rates, c \in Chans \cup {NilChan} : NullSampleLatencies(r, c)
  \/ \E opType \in OpTypes : NullQuery(opType)
  \/ InBudget /\ \E s \in Workers, opType \in CombineOpTypes :
                   StartOp(s, opType)
  \/ InBudget /\ \E s \in Workers : EndOp(s)
  \/ \E s \in Workers : EndOpSend(s)
  \/ \E c \in Chans : Recv(c)
  \/ InBudget /\ \E s \in Workers, c \in Chans : SampleLatencies(s, 100, c)

SpecNull == Init /\ [][NextNull]_vars

\* ---- two threads on one collector, one field access a step ----
\* the threads call StartOp and EndOp on the collector `shared`, which keeps
\* the rate and the (nil) sink NewStatsCollector gave it.  writer tells, for
\* epoch and for lastOp, the call that wrote the field last.  A nil
\* dereference is a panic, and two threads inside a ++ or += on the same
\* map may be stopped by the runtime (fatal): both end the program.
Running == \A t \in Threads : thr[t].pc \notin {"panic", "fatal"}
At(t, p) == Running /\ thr[t].pc = p
ThisCall(t, op) == [by |-> t, n |-> thr[t].calls, op |-> op]
RaceCallsLeft ==
  SumOver([t \in Threads |-> thr[t].calls], Threads) < MaxRaceCalls
RaceFrame == nullRet' = Nil /\ UNCHANGED <<collectorVars, nullSinks>>
\* the call of a thread returns: its locals are gone; what it read the
\* pending start from is remembered until its next call
Return(th) ==
  [IdleThread EXCEPT !.calls = th.calls, !.readEpoch = th.readEpoch,
                     !.readLastOp = th.readLastOp]

WriteTotal(st, v) == [st EXCEPT !.total = v]
WriteCount(st, opType, v) == [st EXCEPT !.counts = Put(@, opType, v)]
WriteEpoch(st, t) == [st EXCEPT !.epoch = Ref(t)]
WriteLastOp(st, opType) == [st EXCEPT !.lastOp = Ref(opType)]
WriteDuration(st, opType, v) == [st EXCEPT !.durations = Put(@, opType, v)]
ClearEpoch(st) == [st EXCEPT !.epoch = Nil]
\* ClearLastOp that leaves the field as it is
ClearLastOpSkipped(st) == st
ClearLastOp(st) == [st EXCEPT !.lastOp = Nil]

\* StartOp is called; line 63, the read of total
RStartOp(t, opType) ==
  /\ At(t, "idle")
  /\ RaceCallsLeft
  /\ thr' = [thr EXCEPT ![t] =
               [IdleThread EXCEPT !.pc = "s63w", !.calls = thr[t].calls + 1,
                                  !.opType = Ref(opType),
                                  !.tmp = shared.total]]
  /\ UNCHANGED <<shared, writer, now>>
  /\ RaceFrame

\* line 63, the write of total
RWriteTotal(t) ==
  /\ At(t, "s63w")
  /\ shared' = WriteTotal(shared, thr[t].tmp + 1)
  /\ thr' = [thr EXCEPT ![t].pc = "s65r"]
  /\ UNCHANGED <<writer, now>>
  /\ RaceFrame

\* line 65, the read of counts[opType]
RReadCount(t) ==
  /\ At(t, "s65r")
  /\ thr' = [thr EXCEPT ![t].pc = "s65w",
                        ![t].tmp = Get(shared.counts, Deref(thr[t].opType))]
  /\ UNCHANGED <<shared, writer, now>>
  /\ RaceFrame

\* line 65, the write of counts[opType]
RWriteCount(t) ==
  /\ At(t, "s65w")
  /\ shared' = WriteCount(shared, Deref(thr[t].opType), thr[t].tmp + 1)
  /\ thr' = [thr EXCEPT ![t].pc = "s67"]
  /\ UNCHANGED <<writer, now>>
  /\ RaceFrame

\* lines 67-71, the reads of sampleRate, a field no thread writes
RReadRate(t) ==
  /\ At(t, "s67")
  /\ \E r \in RandDraws :
       thr' = [thr EXCEPT ![t] = IF Sampled(shared.sampleRate, r)
                                 THEN [@ EXCEPT !.pc = "s73"]
                                 ELSE Return(@)]
  /\ UNCHANGED <<shared, writer, now>>
  /\ RaceFrame

\* lines 72-73, the clock is read and epoch written; in these runs time
\* passes between a StartOp and an EndOp, and the clock reads here what it
\* read last
RWriteEpoch(t) ==
  /\ At(t, "s73")
  /\ now' = now
  /\ shared' = WriteEpoch(shared, now)
  /\ writer' = [writer EXCEPT !.epoch = ThisCall(t, "StartOp")]
  /\ thr' = [thr EXCEPT ![t].pc = "s74"]
  /\ RaceFrame

\* line 74, the write of lastOp
RWriteLastOp(t) ==
  /\ At(t, "s74")
  /\ shared' = WriteLastOp(shared, Deref(thr[t].opType))
  /\ writer' = [writer EXCEPT !.lastOp = ThisCall(t, "StartOp")]
  /\ thr' = [thr EXCEPT ![t] = Return(@)]
  /\ UNCHANGED now
  /\ RaceFrame

\* EndOp is called; line 80, the read of epoch
REndOp(t) ==
  /\ At(t, "idle")
  /\ RaceCallsLeft
  /\ thr' = [thr EXCEPT ![t] =
               [IdleThread EXCEPT !.pc = IF shared.epoch = Nil THEN "idle"
                                                              ELSE "e84",
                                  !.calls = thr[t].calls + 1]]
  /\ UNCHANGED <<shared, writer, now>>
  /\ RaceFrame

\* line 84, the clock is read and *s.epoch
RReadEpoch(t) ==
  /\ At(t, "e84")
  /\ \/ /\ shared.epoch = Nil
        /\ thr' = [thr EXCEPT ![t].pc = "panic",
                              ![t].readEpoch = writer.epoch]
        /\ UNCHANGED now
     \/ /\ shared.epoch # Nil
        /\ \E c \in now..MaxClock :
             /\ now' = c
             /\ thr' = [thr EXCEPT ![t].pc = "e85",
                                   ![t].duration = Elapsed(shared.epoch, c),
                                   ![t].readEpoch = writer.epoch]
  /\ UNCHANGED <<shared, writer>>
  /\ RaceFrame

\* line 85, the read of *s.lastOp
RReadLastOp(t) ==
  /\ At(t, "e85")
  /\ thr' = [thr EXCEPT ![t].pc = IF shared.lastOp = Nil THEN "panic"
                                                         ELSE "e85r",
                        ![t].opType = shared.lastOp,
                        ![t].readLastOp = writer.lastOp]
  /\ UNCHANGED <<shared, writer, now>>
  /\ RaceFrame

\* line 85, the read of durations[*s.lastOp]
RReadDuration(t) ==
  /\ At(t, "e85r")
  /\ thr' = [thr EXCEPT ![t].pc = "e85w",
                        ![t].tmp = Get(shared.durations, Deref(thr[t].opType))]
  /\ UNCHANGED <<shared, writer, now>>
  /\ RaceFrame

\* line 85, the write of durations[*s.lastOp]; line 87 finds no sink
RWriteDuration(t) ==
  /\ At(t, "e85w")
  /\ SinkOf(shared) = NilChan
  /\ shared' = WriteDuration(shared, Deref(thr[t].opType),
                             thr[t].tmp + thr[t].duration)
  /\ thr' = [thr EXCEPT ![t].pc = "e90"]
  /\ UNCHANGED <<writer, now>>
  /\ RaceFrame

\* line 90
RClearEpoch(t) ==
  /\ At(t, "e90")
  /\ shared' = ClearEpoch(shared)
  /\ writer' = [writer EXCEPT !.epoch = ThisCall(t, "EndOp")]
  /\ thr' = [thr EXCEPT ![t].pc = "e91"]
  /\ UNCHANGED now
  /\ RaceFrame

\* line 91
RClearLastOp(t) ==
  /\ At(t, "e91")
  /\ shared' = ClearLastOp(shared)
  /\ writer' = [writer EXCEPT !.lastOp = ThisCall(t, "EndOp")]
  /\ thr' = [thr EXCEPT ![t] = Return(@)]
  /\ UNCHANGED now
  /\ RaceFrame

\* lines 65 and 85: the runtime finds two threads in the same map
InMap(t) ==
  IF thr[t].pc \in {"s65r", "s65w"} THEN "counts"
  ELSE IF thr[t].pc \in {"e85r", "e85w"} THEN "durations" ELSE "none"
RMapFault(t) ==
  /\ Running
  /\ InMap(t) # "none"
  /\ \E u \in Threads \ {t} : InMap(u) = InMap(t)
  /\ thr' = [thr EXCEPT ![t].pc = "fatal"]
  /\ UNCHANGED <<shared, writer, now>>
  /\ RaceFrame

\* the type each thread starts
RaceOpTypes == [t \in Threads |-> IF t = "t1" THEN "insert" ELSE "query"]

NextRace ==
  \/ \E t \in Threads : RStartOp(t, RaceOpTypes[t])
  \/ \E t \in Threads : RWriteTotal(t)
  \/ \E t \in Threads : RReadCount(t)
  \/ \E t \in Threads : RWriteCount(t)
  \/ \E t \in Threads : RReadRate(t)
  \/ \E t \in Threads : RWriteEpoch(t)
  \/ \E t \in Threads : RWriteLastOp(t)
  \/ \E t \in Threads : REndOp(t)
  \/ \E t \in Threads : RReadEpoch(t)
  \/ \E t \in Threads : RReadLastOp(t)
  \/ \E t \in Threads : RReadDuration(t)
  \/ \E t \in Threads : RWriteDuration(t)
  \/ \E t \in Threads : RClearEpoch(t)
  \/ \E t \in Threads : RClearLastOp(t)
  \/ \E t \in Threads : RMapFault(t)

SpecRace == Init /\ [][NextRace]_vars

\* ---- properties ----
\* the step is a call of op on s
Called(s, op) == ncalls'[s] = ncalls[s] + 1 /\ hist'[s][1].op = op
\* the call made on s just before this step was a StartOp
AfterStartOp(s) == hist[s] # <<>> /\ hist[s][1].op = "StartOp"
\* the samples channel c has accepted, oldest first
Accepted(c) == received[c] \o chanBuf[c]
\* the step changes the accumulated duration of no type
SameDurations(s) ==
  \A u \in OpTypes : TotalTime(stats'[s], u) = TotalTime(stats[s], u)
\* the step changes the accumulated duration of no type but t
SameDurationsBut(s, t) ==
  \A u \in OpTypes \ {t} : TotalTime(stats'[s], u) = TotalTime(stats[s], u)
\* the step starts no send
NoPush(s) == pc'[s] = "idle" /\ sending'[s] = Nil

\* C1: for every collector and every operation type, Count(t) is the number
\* of StartOp(t) calls made so far, whatever the rate, the sink and the
\* sampling of those calls.
C1_CountIsStarts ==
  \A s \in Collectors, t \in OpTypes : Count(stats[s], t) = nStart[s][t]

\* insert started twice and a type outside AllOpTypes once, the last StartOp
\* not timed, under rate 0
C1_Witness ==
  \E s \in Workers :
    /\ nStart[s]["insert"] = 2 /\ nStart[s]["other"] = 1
    /\ stats[s].sampleRate = 0
    /\ lastStart[s] = "unsampled"

\* C2: an EndOp made when no StartOp has been called yet, or when the most
\* recent StartOp was not timed, changes no accumulated duration and pushes
\* no sample.
C2_EndOpNoOpUnlessSampled ==
  [][\A s \in Collectors :
       (Called(s, "EndOp") /\ lastStart[s] # "sampled")
         => (SameDurations(s) /\ NoPush(s))]_vars

\* C3: under rate 0, a StartOp(t) adds 1 to Count(t), and the EndOp that
\* follows it pushes nothing and changes no accumulated duration.
C3_RateZeroPairInert ==
  [][\A s \in Collectors :
       /\ (Called(s, "StartOp") /\ stats[s].sampleRate = 0)
            => Count(stats'[s], hist'[s][1].opType)
                 = Count(stats[s], hist'[s][1].opType) + 1
       /\ (Called(s, "EndOp") /\ AfterStartOp(s) /\ stats[s].sampleRate = 0)
            => (SameDurations(s) /\ NoPush(s))]_vars

\* C4: under rate 1.0, the EndOp at clock c2 that follows a StartOp(t) at
\* clock c1 adds c2 - c1 to the accumulated duration of t and changes that
\* of no other type; with a sink it sends the sample (t, c2 - c1) on that
\* sink, which accepts exactly that one sample when the send completes;
\* without a sink no channel accepts anything.
C4_RateOnePairTimed ==
  [][\A s \in Collectors :
       /\ (Called(s, "EndOp") /\ AfterStartOp(s) /\ stats[s].sampleRate = 100)
            => LET t == hist[s][1].opType
                   d == now' - hist[s][1].at
               IN /\ TotalTime(stats'[s], t) = TotalTime(stats[s], t) + d
                  /\ SameDurationsBut(s, t)
                  /\ \A c \in Chans : Accepted(c)' = Accepted(c)
                  /\ IF stats[s].latencyChan # NilChan
                     THEN /\ pc'[s] = "send"
                          /\ sending'[s] =
                               Ref([ch |-> stats[s].latencyChan,
                                    msg |-> [from |-> s, OpType |-> t,
                                             Latency |-> d]])
                     ELSE NoPush(s)
       /\ (pc[s] = "send" /\ pc'[s] = "idle")
            => \A c \in Chans :
                 Accepted(c)' = IF c = Deref(sending[s]).ch
                                THEN Append(Accepted(c), Deref(sending[s]).msg)
                                ELSE Accepted(c)]_vars

\* a sample of a positive duration has been read, under rate 1.0, and the
\* duration is in the accumulated duration of its type
C4_Witness ==
  \E s \in Workers, c \in Chans :
    /\ stats[s].sampleRate = 100
    /\ lastStart[s] = "sampled"
    /\ pc[s] = "idle"
    /\ hist[s][1].op = "EndOp"
    /\ Len(received[c]) = 1
    /\ received[c][1].Latency > 0
    /\ TotalTime(stats[s], received[c][1].OpType) = received[c][1].Latency

\* C5: after two timed StartOp calls with no EndOp between them, the EndOp
\* adds the time since the second StartOp to the accumulated duration of the
\* second type only, and sends at most one sample, of that type; an EndOp
\* right after an EndOp changes nothing; a StartOp that overwrites a pending
\* start still adds 1 to the count of its type.
C5_OverlapKeepsSecond ==
  [][\A s \in Collectors :
       /\ (/\ Called(s, "EndOp")
           /\ Len(hist[s]) = 2
           /\ hist[s][1].op = "StartOp" /\ hist[s][1].sampled
           /\ hist[s][2].op = "StartOp" /\ hist[s][2].sampled)
            => LET t2 == hist[s][1].opType
                   d == now' - hist[s][1].at
               IN /\ TotalTime(stats'[s], t2) = TotalTime(stats[s], t2) + d
                  /\ SameDurationsBut(s, t2)
                  /\ \/ NoPush(s)
                     \/ /\ pc'[s] = "send"
                        /\ Deref(sending'[s]).msg =
                             [from |-> s, OpType |-> t2, Latency |-> d]
       /\ (Called(s, "EndOp") /\ hist[s] # <<>> /\ hist[s][1].op = "EndOp")
            => (stats'[s] = stats[s] /\ NoPush(s))
       /\ (Called(s, "StartOp") /\ stats[s].epoch # Nil)
            => Count(stats'[s], hist'[s][1].opType)
                 = Count(stats[s], hist'[s][1].opType) + 1]_vars

\* StartOp(insert), StartOp(query), EndOp, one tick apart: query has the one
\* tick between its StartOp and the EndOp, insert has nothing
C5_Witness ==
  \E s \in Workers :
    /\ ncalls[s] = 3
    /\ hist[s][1].op = "EndOp"
    /\ hist[s][2].op = "StartOp" /\ hist[s][2].sampled
    /\ Count(stats[s], "insert") = 1 /\ Count(stats[s], "query") = 1
    /\ TotalTime(stats[s], "insert") = 0
    /\ TotalTime(stats[s], "query") = 1
    /\ now = 2
    /\ stats[s].epoch = Nil

\* the sums, over the collectors named by list, of Count(t), of the
\* accumulated duration of t, and of total
RECURSIVE SumCounts(_, _)
SumCounts(list, t) ==
  IF list = <<>> THEN 0
  ELSE Count(stats[Head(list)], t) + SumCounts(Tail(list), t)
RECURSIVE SumDurations(_, _)
SumDurations(list, t) ==
  IF list = <<>> THEN 0
  ELSE TotalTime(stats[Head(list)], t) + SumDurations(Tail(list), t)
RECURSIVE SumTotals(_)
SumTotals(list) ==
  IF list = <<>> THEN 0
  ELSE stats[Head(list)].total + SumTotals(Tail(list))

\* C6: the collector CombineStats returns has, for every type of AllOpTypes,
\* the sum of the inputs' counts and the sum of their accumulated durations,
\* and the call changes no field of any collector.
C6_CombineSums ==
  [][newStats' # Nil =>
       LET list == Deref(newStats').args
           result == Deref(newStats').result
       IN /\ \A t \in Elems(AllOpTypes) :
               /\ Count(result, t) = SumCounts(list, t)
               /\ TotalTime(result, t) = SumDurations(list, t)
          /\ stats' = stats]_vars

\* CombineStats(w1, w2) where both have started inserts and one has
\* accumulated time
C6_Witness ==
  /\ newStats # Nil
  /\ Deref(newStats).args = <<"w1", "w2">>
  /\ Count(stats["w1"], "insert") >= 1
  /\ Count(stats["w2"], "insert") >= 1
  /\ Count(Deref(newStats).result, "insert") = 2
  /\ TotalTime(stats["w1"], "insert") >= 1
  /\ TotalTime(Deref(newStats).result, "insert") >= 1
  /\ stats["w1"].epoch = Nil

\* C7: the total of the collector CombineStats returns is the sum of the
\* inputs' totals.
C7_CombineTotalIsSum ==
  newStats # Nil =>
    Deref(newStats).result.total = SumTotals(Deref(newStats).args)

\* C8 as claimed: the EndOp of an operation in flight sends its sample on
\* the sink that was installed when the operation started (on none if none
\* was).
C8_SampleToSinkAtStart ==
  [][\A s \in Collectors :
       (Called(s, "EndOp") /\ stats[s].epoch # Nil)
         => IF startChan[s] # NilChan
            THEN pc'[s] = "send" /\ Deref(sending'[s]).ch = startChan[s]
            ELSE NoPush(s)]_vars

\* C8 as amended: SampleLatencies leaves the pending start (timestamp and
\* type) and the accumulated durations as they are; the EndOp of an
\* operation in flight adds the time since its StartOp to the accumulated
\* duration of its type whatever the rate now is, and sends its sample on
\* the sink installed when EndOp runs (on none if none is).
C8_SampleToSinkAtEnd ==
  [][\A s \in Collectors :
       /\ Called(s, "SampleLatencies")
            => /\ stats'[s].epoch = stats[s].epoch
               /\ stats'[s].lastOp = stats[s].lastOp
               /\ SameDurations(s)
       /\ (Called(s, "EndOp") /\ stats[s].epoch # Nil)
            => LET t == Deref(stats[s].lastOp)
                   d == now' - Deref(stats[s].epoch)
               IN /\ TotalTime(stats'[s], t) = TotalTime(stats[s], t) + d
                  /\ SameDurationsBut(s, t)
                  /\ IF stats[s].latencyChan # NilChan
                     THEN /\ pc'[s] = "send"
                          /\ Deref(sending'[s]) =
                               [ch |-> stats[s].latencyChan,
                                msg |-> [from |-> s, OpType |-> t,
                                         Latency |-> d]]
                     ELSE NoPush(s)]_vars

\* an operation started with one sink installed is being sent on another,
\* installed since, under rate 0
C8_Witness ==
  \E s \in Workers :
    /\ pc[s] = "send"
    /\ startChan[s] = "unbuf"
    /\ Deref(sending[s]).ch = "buf"
    /\ stats[s].sampleRate = 0
    /\ Deref(sending[s]).msg.Latency > 0

\* the EndOp calls of s that found a pending start and a sink, and have
\* returned
Completed(s) ==
  IF pc[s] = "send" THEN SubSeq(effLog[s], 1, Len(effLog[s]) - 1)
                    ELSE effLog[s]
OnChan(log, c) == SelectSeq(log, LAMBDA e : e.ch = c)
Msgs(log) == [i \in 1..Len(log) |-> log[i].msg]
From(msgs, s) == SelectSeq(msgs, LAMBDA m : m.from = s)

\* C9: every channel has accepted as many samples as there are returned
\* EndOp calls that found a pending start while that channel was the sink;
\* an EndOp that has not had its sample accepted has not returned and has
\* not cleared the pending start.
C9_NoSampleDropped ==
  /\ \A c \in Chans :
       Len(Accepted(c)) =
         SumOver([s \in Collectors |-> Len(OnChan(Completed(s), c))],
                 Collectors)
  /\ \A s \in Collectors :
       pc[s] = "send" =>
         /\ stats[s].epoch # Nil /\ stats[s].lastOp # Nil
         /\ effLog[s] # <<>>
         /\ effLog[s][Len(effLog[s])] = Deref(sending[s])

\* one sample was accepted and read, and a second EndOp waits on the
\* unbuffered channel
C9_Witness ==
  \E s \in Workers :
    /\ pc[s] = "send"
    /\ Deref(sending[s]).ch = "unbuf"
    /\ Len(received["unbuf"]) = 1
    /\ Len(effLog[s]) = 2
    /\ stats[s].epoch # Nil

\* C10: the samples a channel has accepted from a collector are the samples
\* of that collector's returned EndOp calls on that channel, in the order
\* of those calls, each once.
C10_SamplesInEndOpOrder ==
  \A s \in Collectors, c \in Chans :
    From(Accepted(c), s) = Msgs(OnChan(Completed(s), c))

\* two samples of different types went through the buffered channel, one
\* read and one still in the buffer
C10_Witness ==
  \E s \in Workers :
    /\ Len(received["buf"]) = 1
    /\ Len(chanBuf["buf"]) = 1
    /\ received["buf"][1].OpType # chanBuf["buf"][1].OpType
    /\ Msgs(effLog[s]) = <<received["buf"][1], chanBuf["buf"][1]>>
    /\ pc[s] = "idle"

\* the EndOp of s is at its send and the channel has no room for the sample
Blocked(s) ==
  /\ pc[s] = "send"
  /\ Len(chanBuf[Deref(sending[s]).ch]) >= Cap[Deref(sending[s]).ch]

\* C11: a StartOp, a SampleLatencies, a CombineStats, and an EndOp that
\* finds no pending start or no sink, complete in their step, and Count,
\* OpsSec and LatencyInMs have a value in every state; an EndOp that finds a
\* pending start and a sink goes to its send; while it is at the send and the
\* channel is unbuffered or full, no step but one of the reader lets it go
\* on; and with a reader that keeps draining, every EndOp at its send
\* returns.
C11_OnlyPushBlocks ==
  /\ [](\A s \in Collectors, t \in OpTypes :
          /\ Count(stats[s], t) >= 0
          /\ OpsSec(stats[s], t).den # 0
          /\ LatencyInMs(stats[s], t).den # 0)
  /\ [][\A s \in Collectors :
          /\ (Called(s, "StartOp") \/ Called(s, "SampleLatencies"))
               => pc'[s] = "idle"
          /\ Called(s, "EndOp")
               => (pc'[s] = "send"
                     <=> (stats[s].epoch # Nil /\ stats[s].latencyChan # NilChan))
          /\ pc'[s] = "send" => (pc[s] = "send" \/ Called(s, "EndOp"))
          /\ newStats' # Nil => pc'[s] = pc[s]
          /\ (Blocked(s) /\ received' = received) => Blocked(s)']_vars
  /\ \A s \in Workers : (pc[s] = "send") ~> (pc[s] = "idle")

\* the buffer is full, nothing has been read from it, and an EndOp waits to
\* send one more sample on it
C11_Witness ==
  \E s \in Workers :
    /\ Blocked(s)
    /\ Deref(sending[s]).ch = "buf"
    /\ Len(chanBuf["buf"]) = BufCap
    /\ received["buf"] = <<>>
    /\ Len(effLog[s]) = BufCap + 1

\* C12: every query of the null collector returns 0; a call on the null
\* collector is one step that is possible in every state, whatever was
\* called before, and it changes no collector, no channel and nothing a
\* channel has accepted; and every sample accepted by a channel that was
\* given to the null collector comes from a worker's collector.
C12_NullCollectorInert ==
  /\ [](/\ nullRet # Nil =>
             Deref(nullRet).ret =
               (CASE Deref(nullRet).op \in {"Count", "TotalTime"} -> 0
                  [] Deref(nullRet).op \in {"OpsSec", "LatencyInMs"} -> Zero
                  [] OTHER -> Nil)
         /\ ENABLED NullEndOp
         /\ (\A t \in OpTypes :
               ENABLED NullStartOp(t) /\ ENABLED NullQuery(t))
         /\ (\A r \in Rates, k \in Chans \cup {NilChan} :
               ENABLED NullSampleLatencies(r, k))
         /\ (\A c \in nullSinks : \A i \in 1..Len(Accepted(c)) :
               Accepted(c)[i].from \in Workers))
  /\ [][nullRet' # Nil =>
          /\ UNCHANGED <<stats, pc, sending, chanBuf, received>>
          /\ \A c \in Chans : Accepted(c)' = Accepted(c)]_vars

\* the null collector was given the channel a worker sends on, the worker
\* has counted an insert and its sample waits in that channel, and the null
\* Count has just been called
C12_Witness ==
  \E s \in Workers :
    /\ nullRet # Nil /\ Deref(nullRet).op = "Count"
    /\ "buf" \in nullSinks
    /\ Count(stats[s], "insert") = 1
    /\ Len(chanBuf["buf"]) = 1
    /\ pc[s] = "idle"

\* C13: OpsSec(t) is 0 whenever the accumulated duration of t is 0 and
\* LatencyInMs(t) is 0 whenever Count(t) is 0, neither is ever computed by a
\* division by zero, and right after construction Count, OpsSec and
\* LatencyInMs are 0 for every type.
C13_MetricsGuarded ==
  \A s \in Collectors, t \in OpTypes :
    /\ OpsSec(stats[s], t).den # 0
    /\ LatencyInMs(stats[s], t).den # 0
    /\ TotalTime(stats[s], t) = 0 => OpsSec(stats[s], t) = Zero
    /\ Count(stats[s], t) = 0 => LatencyInMs(stats[s], t) = Zero
    /\ ncalls[s] = 0 => /\ Count(stats[s], t) = 0
                        /\ OpsSec(stats[s], t) = Zero
                        /\ LatencyInMs(stats[s], t) = Zero

\* insert was started and ended within one tick (a count without time),
\* query was timed, and other was never started
C13_Witness ==
  \E s \in Workers :
    /\ Count(stats[s], "insert") = 1 /\ TotalTime(stats[s], "insert") = 0
    /\ Count(stats[s], "query") = 1 /\ TotalTime(stats[s], "query") = 2
    /\ Count(stats[s], "other") = 0
    /\ OpsSec(stats[s], "query") = Quot(Second, 2)
    /\ LatencyInMs(stats[s], "query") = Quot(2000, Second)
    /\ stats[s].epoch = Nil

\* no StartOp is between its two writes of the pending start and no EndOp
\* between its two clears
Settled == \A t \in Threads : thr[t].pc \notin {"s74", "e91"}
\* the pending timestamp was written by one StartOp call and the pending
\* type by another
MixedPending ==
  /\ shared.epoch # Nil /\ shared.lastOp # Nil
  /\ writer.epoch # writer.lastOp
\* one of the pending timestamp and the pending type is there, the other not
TornPending == (shared.epoch = Nil) # (shared.lastOp = Nil)
\* the EndOp of t has used the timestamp of one StartOp call and the type of
\* another
UsedMixed(t) ==
  /\ thr[t].readEpoch.op = "StartOp" /\ thr[t].readLastOp.op = "StartOp"
  /\ thr[t].readEpoch # thr[t].readLastOp
\* the EndOp of t found nil where line 80 had found a pending start
ReadCleared(t) == thr[t].pc = "panic"
Corrupt ==
  \/ Settled /\ (MixedPending \/ TornPending)
  \/ \E t \in Threads : UsedMixed(t) \/ ReadCleared(t)
  \/ \E t \in Threads : thr[t].pc = "fatal"
\* at most one thread has called the collector
SingleCaller ==
  \E t \in Threads : \A u \in Threads \ {t} : thr[u].calls = 0

\* C14: as long as a single thread calls the collector, the pending start is
\* never mixed or torn between calls, no EndOp uses a timestamp and a type
\* of different StartOp calls, and no EndOp reads a cleared slot; with two
\* threads such states are reached (C14_Witness).
C14_SingleCallerSafe == SingleCaller => ~Corrupt

\* one thread's EndOp has used the timestamp of the other thread's StartOp
\* with the type of its own, and cleared the pending start; the other
\* thread's EndOp, past line 80, then read the cleared timestamp
C14_Witness ==
  \E a \in Threads, b \in Threads :
    /\ a # b
    /\ thr[a].pc = "idle"
    /\ thr[a].readEpoch = [by |-> b, n |-> 1, op |-> "StartOp"]
    /\ thr[a].readLastOp = [by |-> a, n |-> 1, op |-> "StartOp"]
    /\ ReadCleared(b)
    /\ thr[b].readEpoch = [by |-> a, n |-> 2, op |-> "EndOp"]
    /\ shared.epoch = Nil /\ shared.lastOp = Nil

\* C15: the collector CombineStats returns has the sample rate of
\* NewStatsCollector, no sink and no pending start, whatever its inputs have;
\* from an empty list it equals NewStatsCollector in every field.
C15_CombineInheritsNothing ==
  newStats # Nil =>
    LET result == Deref(newStats).result
    IN /\ result.sampleRate = NewStatsCollector.sampleRate
       /\ result.latencyChan = NilChan
       /\ result.epoch = Nil /\ result.lastOp = Nil
       /\ Deref(newStats).args = <<>> => result = NewStatsCollector

\* CombineStats was given, first, a collector with rate 0, a sink and a
\* pending start
C15_Witness ==
  /\ newStats # Nil
  /\ Deref(newStats).args # <<>>
  /\ LET st == stats[Deref(newStats).args[1]]
     IN /\ st.sampleRate = 0
        /\ st.latencyChan = "buf"
        /\ st.epoch # Nil
        /\ st.total = 2

\* C16: no step decreases Count(t) or total; a step that changes either is
\* a StartOp; and a StartOp adds exactly 1 to the count of its type and to
\* total, and nothing to the count of any other type.
C16_CountsMonotonic ==
  [][\A s \in Collectors :
       LET changed == \/ stats'[s].total # stats[s].total
                      \/ \E t \in OpTypes :
                           Count(stats'[s], t) # Count(stats[s], t)
       IN /\ stats'[s].total >= stats[s].total
          /\ \A t \in OpTypes : Count(stats'[s], t) >= Count(stats[s], t)
          /\ changed => Called(s, "StartOp")
          /\ Called(s, "StartOp") =>
               /\ stats'[s].total = stats[s].total + 1
               /\ \A t \in OpTypes :
                    Count(stats'[s], t) =
                      Count(stats[s], t)
                        + (IF t = hist'[s][1].opType THEN 1 ELSE 0)]_vars

\* two StartOp calls, and three other calls that left the counts alone
C16_Witness ==
  \E s \in Workers :
    /\ ncalls[s] = 5
    /\ stats[s].total = 2
    /\ Count(stats[s], "insert") = 2
    /\ hist[s][1].op = "SampleLatencies"
    /\ hist[s][2].op = "EndOp"
    /\ TotalTime(stats[s], "insert") > 0

\* C17: StartOp leaves the accumulated durations, the sample rate and the
\* sink as they are and pushes nothing; EndOp, to its return, leaves the
\* counts, total, the sample rate and the sink as they are and changes the
\* accumulated duration of the pending type at most; SampleLatencies leaves
\* the counts, the durations, total and the pending start as they are.
C17_Frames ==
  [][\A s \in Collectors :
       LET sameCounts == /\ stats'[s].total = stats[s].total
                         /\ \A t \in OpTypes :
                              Count(stats'[s], t) = Count(stats[s], t)
           sameConfig == /\ stats'[s].sampleRate = stats[s].sampleRate
                         /\ stats'[s].latencyChan = stats[s].latencyChan
       IN /\ Called(s, "StartOp") =>
               /\ SameDurations(s) /\ sameConfig /\ NoPush(s)
               /\ \A c \in Chans : Accepted(c)' = Accepted(c)
          /\ Called(s, "EndOp") =>
               /\ sameCounts /\ sameConfig
               /\ IF stats[s].epoch = Nil THEN SameDurations(s)
                  ELSE SameDurationsBut(s, Deref(stats[s].lastOp))
          /\ (pc[s] = "send" /\ pc'[s] = "idle") =>
               sameCounts /\ sameConfig /\ SameDurations(s)
          /\ Called(s, "SampleLatencies") =>
               /\ sameCounts /\ SameDurations(s)
               /\ stats'[s].epoch = stats[s].epoch
               /\ stats'[s].lastOp = stats[s].lastOp]_vars

\* SampleLatencies(0.5, c), a timed StartOp and its EndOp have all been made
\* and the sample was accepted by c
C17_Witness ==
  \E s \in Workers, c \in Chans :
    /\ stats[s].sampleRate = 50 /\ stats[s].latencyChan = c
    /\ pc[s] = "idle"
    /\ hist[s][1].op = "EndOp"
    /\ Len(Accepted(c)) = 1
    /\ TotalTime(stats[s], "insert") > 0
    /\ stats[s].total = 1

\* C18: total is the sum of the counts of all the types that have a count,
\* those outside AllOpTypes included.
C18_TotalIsSumOfCounts ==
  \A s \in Collectors :
    stats[s].total = SumOver(stats[s].counts, DOMAIN stats[s].counts)

\* a type outside AllOpTypes has been started twice and insert once
C18_Witness ==
  \E s \in Workers :
    /\ "other" \in DOMAIN stats[s].counts
    /\ Count(stats[s], "other") = 2
    /\ Count(stats[s], "insert") = 1
    /\ stats[s].total = 3

\* C19: the pending timestamp and the pending type are both present or both
\* absent; both are absent once an EndOp has returned; and an EndOp right
\* after an EndOp changes nothing.
C19_PendingPaired ==
  /\ [](\A s \in Collectors :
          /\ (stats[s].epoch = Nil) <=> (stats[s].lastOp = Nil)
          /\ (pc[s] = "idle" /\ hist[s] # <<>> /\ hist[s][1].op = "EndOp")
               => (stats[s].epoch = Nil /\ stats[s].lastOp = Nil))
  /\ [][\A s \in Collectors :
          (Called(s, "EndOp") /\ hist[s] # <<>> /\ hist[s][1].op = "EndOp")
            => (/\ stats'[s] = stats[s]
                /\ NoPush(s)
                /\ \A c \in Chans : Accepted(c)' = Accepted(c))]_vars

\* a timed operation was ended, its sample sent, and EndOp was called again
C19_Witness ==
  \E s \in Workers :
    /\ Len(hist[s]) = 2
    /\ hist[s][1].op = "EndOp" /\ hist[s][2].op = "EndOp"
    /\ pc[s] = "idle"
    /\ Len(effLog[s]) = 1
    /\ TotalTime(stats[s], "query") = 1
    /\ stats[s].epoch = Nil /\ stats[s].lastOp = Nil

\* C20: in every collector, and in the collector CombineStats returns, a
\* type with a non-zero accumulated duration has a count above 0, so
\* LatencyInMs is 0 only for a type with no accumulated duration.
C20_TimeImpliesCount ==
  LET ok(st) == \A t \in OpTypes :
                  /\ TotalTime(st, t) # 0 => Count(st, t) > 0
                  /\ LatencyInMs(st, t) = Zero => TotalTime(st, t) = 0
  IN /\ \A s \in Collectors : ok(stats[s])
     /\ newStats # Nil => ok(Deref(newStats).result)

\* CombineStats over two collectors returned accumulated time for insert
C20_Witness ==
  /\ newStats # Nil
  /\ Deref(newStats).args = <<"w1", "w2">>
  /\ TotalTime(Deref(newStats).result, "insert") = 2
  /\ Count(Deref(newStats).result, "insert") = 2
  /\ Count(stats["w2"], "insert") = 1

====
